---- MODULE Spec2Model ----
(***************************************************************************)
(* MELT: a modal, line-buffer terminal text editor (src/melt.cpp).         *)
(*                                                                         *)
(* Text is a sequence of lines, a line a sequence of one-character         *)
(* strings.  Columns and rows are 0-based as in the source; the sequences  *)
(* of TLA+ are 1-based, so line y of the source is ls[y + 1].              *)
(* An unsigned value of 2^31 or more is written as the Int with the same   *)
(* 32-bit pattern (its two's complement), which keeps unsigned             *)
(* subtraction exact; ULt compares two such values as unsigned.            *)
(***************************************************************************)
EXTENDS Integers, Sequences, FiniteSets, TLC

VARIABLES
    lines,          \* vecstr lines: the Document
    cx, cy,         \* cursor column and row
    ox, oy,         \* viewport origin
    mx, my,         \* cached terminal size (columns, rows)
    ax, ay,         \* viewport size (columns, body rows)
    fstate,         \* 0 unbound/new, 1 clean, 2 modified
    edmode,         \* 0 Edit, 1 Command
    fname,          \* bound filename ("" = <<>>)
    smessage,       \* message line, as <<text, argument>> (padding left out)
    cmd,            \* pending command text
    last_cmd,       \* command stored for '.'
    is_running,
    is_ws_changed,
    front,          \* the last-drawn frame: rows of characters
    back,           \* the target frame
    term,           \* the body rows the terminal shows
    drawn,          \* the rows (from 0) this tick's render pass wrote to the terminal
    cursor,         \* <<row, column>> of this tick's move(), <<>> before it
    pc,             \* position in Melt::run's loop: "update", "render", "events"
    fatal,          \* "none", or why the process died: "size", "alloc", "length", "stack"
    key,            \* the key of the last step, if it changed anything or moved the cursor ("none" otherwise)
    mvlog,          \* one snapshot per mvCursor call of the last step
    cmdlog,         \* one record per command character executed in the last step
    saved,          \* the Document as loaded at startup or as last written by save
    typed           \* keys typed since startup while only text keys were typed; <<"-">> after any other key

vars == <<lines, cx, cy, ox, oy, mx, my, ax, ay, fstate, edmode, fname, smessage,
          cmd, last_cmd, is_running, is_ws_changed, front, back, term, drawn, cursor,
          pc, fatal, key, mvlog, cmdlog, saved, typed>>

----------------------------------------------------------------------------
(* Bounds of the model *)

\* most lines a typed Document may grow to (Enter is not taken beyond it)
MaxLines == 2
\* most characters a typed Document may hold in all (text keys are not taken beyond it)
MaxChars == 2
\* the same two bounds for SpecText, which has no commands and room for a Tab
MaxTextLines == 3
MaxTextChars == 5
\* the same two bounds for SpecFile
MaxFileLines == 1
MaxFileChars == 1
\* the file of SpecStatus: its number of lines, and the length of its last line
StatusRows == 100
StatusCols == 99
\* deepest nesting of processCmd calls before the stack is taken to overflow
MaxCallDepth == 3

(* Program constants *)
MinCols == 40
MinBodyRows == 12
tab_width == 4
MAX_FN_LEN == 255

----------------------------------------------------------------------------
(* Helpers *)

Min(a, b) == IF a < b THEN a ELSE b
Max(a, b) == IF a > b THEN a ELSE b

\* a < b for two unsigned 32-bit values
ULt(a, b) == IF (a < 0) = (b < 0) THEN a < b ELSE b < 0

Range(s) == {s[i] : i \in 1..Len(s)}

\* std::string::length of lines[y]; 0 where the source would read out of range
LineLen(ls, y) == IF y >= 0 /\ y < Len(ls) THEN Len(ls[y + 1]) ELSE 0

\* the characters of lines lo..hi of ls, summed in halves
RECURSIVE SumLens(_, _, _)
SumLens(ls, lo, hi) ==
    IF lo > hi THEN 0
    ELSE IF lo = hi THEN Len(ls[lo])
    ELSE SumLens(ls, lo, (lo + hi) \div 2) + SumLens(ls, ((lo + hi) \div 2) + 1, hi)

TotalChars(ls) == SumLens(ls, 1, Len(ls))

\* visualLength: length after tab expansion
\* one pass of its loop: the length so far, after character c
VisualStep(len, c) == IF c = "\t" THEN len + (tab_width - (len % tab_width)) ELSE len + 1

\* the length after characters lo..hi of s, from the length len before them;
\* the loop is cut in halves to keep the evaluation shallow
RECURSIVE VisualFrom(_, _, _, _)
VisualFrom(s, lo, hi, len) ==
    IF lo > hi THEN len
    ELSE IF lo = hi THEN VisualStep(len, s[lo])
    ELSE LET mid  == (lo + hi) \div 2
             left == VisualFrom(s, lo, mid, len)
         IN  IF left >= 0 THEN VisualFrom(s, mid + 1, hi, left) ELSE 0

visualLength(s) == VisualFrom(s, 1, Len(s), 0)

----------------------------------------------------------------------------
(* Text buffer primitives: each is a no-op when out of range *)

insCh(ls, x, y, c) ==
    IF y < Len(ls) /\ x <= Len(ls[y + 1])
    THEN [ls EXCEPT ![y + 1] = SubSeq(@, 1, x) \o <<c>> \o SubSeq(@, x + 1, Len(@))]
    ELSE ls

rmCh_NextColumn(ls, x, y) ==
    IF y < Len(ls) /\ x + 1 < Len(ls[y + 1])
    THEN [ls EXCEPT ![y + 1] = SubSeq(@, 1, x + 1) \o SubSeq(@, x + 3, Len(@))]
    ELSE ls

rmCh(ls, x, y) ==
    IF y < Len(ls) /\ x < Len(ls[y + 1])
    THEN [ls EXCEPT ![y + 1] = SubSeq(@, 1, x) \o SubSeq(@, x + 2, Len(@))]
    ELSE ls

insLn(ls, y, l) ==
    IF y <= Len(ls)
    THEN SubSeq(ls, 1, y) \o <<l>> \o SubSeq(ls, y + 1, Len(ls))
    ELSE ls

rmLn(ls, y) ==
    IF y < Len(ls)
    THEN SubSeq(ls, 1, y) \o SubSeq(ls, y + 2, Len(ls))
    ELSE ls

\* (lines is never empty where jnLn is called, so lines.size() - 1 does not wrap)
jnLn(ls, y) ==
    IF y < Len(ls) - 1
    THEN rmLn([ls EXCEPT ![y + 1] = @ \o ls[y + 2]], y + 1)
    ELSE ls

spLn_KeepsTail(ls, x, y) ==
    IF y < Len(ls) /\ x <= Len(ls[y + 1])
    THEN insLn(ls, y + 1, SubSeq(ls[y + 1], x + 1, Len(ls[y + 1])))
    ELSE ls

spLn(ls, x, y) ==
    IF y < Len(ls) /\ x <= Len(ls[y + 1])
    THEN insLn([ls EXCEPT ![y + 1] = SubSeq(@, 1, x)], y + 1,
               SubSeq(ls[y + 1], x + 1, Len(ls[y + 1])))
    ELSE ls

----------------------------------------------------------------------------
(* Cursor and viewport.  The editor's fields travel in a record s with the *)
(* names of the variables; a handler is a function from record to record.  *)

Snapshot(s) ==
    [cx |-> s.cx, cy |-> s.cy, ox |-> s.ox, oy |-> s.oy, ax |-> s.ax, ay |-> s.ay,
     n |-> Len(s.lines), len |-> LineLen(s.lines, s.cy)]

scrollUp(s, d) == IF s.oy >= d THEN [s EXCEPT !.oy = @ - d] ELSE s

scrollDown(s, d) == IF s.oy + d < Len(s.lines) THEN [s EXCEPT !.oy = @ + d] ELSE s

scrollLeft(s, d) == [s EXCEPT !.ox = IF @ >= d THEN @ - d ELSE 0]

\* the longest tab-expanded line among the rows front covers from oy on
MaxVisibleLength(s) ==
    LET rows == {i \in 0..(s.front_rows - 1) : i + s.oy < Len(s.lines)}
        lens == {visualLength(s.lines[i + s.oy + 1]) : i \in rows}
    IN  IF lens = {} THEN 0 ELSE CHOOSE m \in lens : \A k \in lens : k <= m

scrollRight_NoLimit(s, d) ==
    IF s.front_rows = 0 THEN s ELSE [s EXCEPT !.ox = @ + d]

scrollRight(s, d) ==
    IF s.front_rows = 0 THEN s
    ELSE IF s.ox + d < MaxVisibleLength(s) THEN [s EXCEPT !.ox = @ + d] ELSE s

scrollToFit(s) ==
    LET h == IF s.cx < s.ox THEN scrollLeft(s, s.ox - s.cx)
             ELSE IF s.cx >= s.ox + s.ax THEN scrollRight(s, s.cx - (s.ox + s.ax) + 1)
             ELSE s
    IN  IF h.cy < h.oy THEN scrollUp(h, h.oy - h.cy)
        ELSE IF h.cy >= h.oy + h.ay THEN scrollDown(h, h.cy - (h.oy + h.ay) + 1)
        ELSE h

\* what a mvCursor call found: the horizontal origin, and the length
\* scrollRight compares with (the Document and oy are as it sees them)
Before(s) == [ox0 |-> s.ox, maxlen |-> MaxVisibleLength(s)]

mvCursor_KeepsColumn(s, xd, yd) ==
    LET n  == Len(s.lines)
        ny == IF s.cy + yd < 0 THEN 0 ELSE IF s.cy + yd >= n THEN n - 1 ELSE s.cy + yd
        t  == scrollToFit([s EXCEPT !.cx = Max(0, s.cx + xd), !.cy = ny])
    IN  [t EXCEPT !.mvlog = Append(@, Snapshot(t) @@ Before(s))]

mvCursor(s, xd, yd) ==
    LET n   == Len(s.lines)
        ny0 == s.cy + yd
        ny1 == IF ny0 < 0 THEN 0 ELSE IF ny0 >= n THEN n - 1 ELSE ny0
        nx0 == s.cx + xd
        nx1 == IF ny1 # s.cy /\ ny1 >= 0 /\ ny1 < n
               THEN Min(nx0, LineLen(s.lines, ny1)) ELSE nx0
        pos == IF nx1 < 0
               THEN IF ny1 > 0 THEN <<LineLen(s.lines, ny1 - 1), ny1 - 1>> ELSE <<0, ny1>>
               ELSE IF nx1 > LineLen(s.lines, ny1)
                    THEN <<0, IF ny1 < n - 1 THEN ny1 + 1 ELSE ny1>>
                    ELSE <<nx1, ny1>>
        t   == scrollToFit([s EXCEPT !.cx = pos[1], !.cy = pos[2]])
    IN  [t EXCEPT !.mvlog = Append(@, Snapshot(t) @@ Before(s))]

----------------------------------------------------------------------------
(* Filename check *)

LowerCase == <<"a","b","c","d","e","f","g","h","i","j","k","l","m",
               "n","o","p","q","r","s","t","u","v","w","x","y","z">>
UpperCase == <<"A","B","C","D","E","F","G","H","I","J","K","L","M",
               "N","O","P","Q","R","S","T","U","V","W","X","Y","Z">>

toupper(c) ==
    IF \E i \in 1..Len(LowerCase) : LowerCase[i] = c
    THEN UpperCase[CHOOSE i \in 1..Len(LowerCase) : LowerCase[i] = c]
    ELSE c

reserved ==
    {<<"C","O","N">>, <<"P","R","N">>, <<"A","U","X">>, <<"N","U","L">>}
    \cup {<<"C","O","M",d>> : d \in {"1","2","3","4","5","6","7","8","9"}}
    \cup {<<"L","P","T",d>> : d \in {"1","2","3","4","5","6","7","8","9"}}

invalid_chars == {"<", ">", ":", "\"", "/", "\\", "|", "?", "*"}

\* the characters below 32 that a modelled name may hold
ControlChars == {"\t", "\n"}

valFn(fn) ==
    IF fn = <<>> THEN FALSE
    ELSE IF Len(fn) > MAX_FN_LEN THEN FALSE
    ELSE IF fn[1] = " " \/ fn[Len(fn)] = " " \/ fn[Len(fn)] = "." THEN FALSE
    ELSE IF \E i \in 1..Len(fn) : fn[i] \in ControlChars \/ fn[i] \in invalid_chars THEN FALSE
    ELSE LET dots == {i \in 1..Len(fn) : fn[i] = "."}
             dot  == IF dots = {} THEN Len(fn) + 1
                     ELSE CHOOSE i \in dots : \A j \in dots : i <= j
             name_only  == SubSeq(fn, 1, dot - 1)
             upper_name == [i \in 1..Len(name_only) |-> toupper(name_only[i])]
         IN  upper_name \notin reserved

----------------------------------------------------------------------------
(* File output.  Whether the file opens is the environment's choice: s.io  *)
(* holds the outcomes of the next open calls, and an open succeeds once    *)
(* s.io is used up.                                                        *)

Msg(text, arg) == <<text, arg>>

\* save: the message on failure, <<>> (std::nullopt) on success
save(s, fn) ==
    IF fn = <<>> THEN [s |-> s, ret |-> Msg("Empty filename!", <<>>)]
    ELSE IF s.io # <<>> /\ ~Head(s.io)
         THEN [s |-> [s EXCEPT !.io = Tail(@)], ret |-> Msg("Failed to open for writing!", fn)]
         ELSE [s |-> [s EXCEPT !.io = IF @ = <<>> THEN @ ELSE Tail(@), !.saved = s.lines],
               ret |-> <<>>]

----------------------------------------------------------------------------
(* Command interpreter *)

\* 's': save to the bound filename
cmdSave(s) ==
    LET r == save(s, s.fname)
    IN  IF r.ret # <<>> THEN [r.s EXCEPT !.smessage = r.ret]
        ELSE [r.s EXCEPT !.smessage = Msg("Successfully written to", s.fname), !.fstate = 1]

\* Enter in the filename prompt
promptConfirm_BindsFirst(s, fn) ==
    IF fn = <<>> THEN [s EXCEPT !.smessage = Msg("Empty filename!", <<>>)]
    ELSE IF ~valFn(fn) THEN [s EXCEPT !.smessage = Msg("Invalid filename!", <<>>)]
    ELSE LET r == save(s, fn)
         IN  IF r.ret # <<>> THEN [r.s EXCEPT !.fname = fn, !.smessage = r.ret]
             ELSE [r.s EXCEPT !.fname = fn,
                              !.smessage = Msg("Successfully written to", fn),
                              !.fstate = 1]

promptConfirm(s, fn) ==
    IF fn = <<>> THEN [s EXCEPT !.smessage = Msg("Empty filename!", <<>>)]
    ELSE IF ~valFn(fn) THEN [s EXCEPT !.smessage = Msg("Invalid filename!", <<>>)]
    ELSE LET r == save(s, fn)
         IN  IF r.ret # <<>> THEN [r.s EXCEPT !.smessage = r.ret]
             ELSE [r.s EXCEPT !.fname = fn,
                              !.smessage = Msg("Successfully written to", fn),
                              !.fstate = 1]

\* the prompt's read loop over the keys ks; getch's result is narrowed to char,
\* which turns KEY_ENTER (343) into 'W' (87) and KEY_BACKSPACE (263) into 7
RECURSIVE promptLoop(_, _, _)
promptLoop(s, ks, fn) ==
    IF ks = <<>> \/ Head(ks) = "Esc" THEN s
    ELSE IF Head(ks) = "Enter" THEN promptConfirm(s, fn)
    ELSE IF Head(ks) = "Bksp"
         THEN promptLoop(s, Tail(ks), SubSeq(fn, 1, Len(fn) - 1))
    ELSE IF Head(ks) = "KEY_ENTER" THEN promptLoop(s, Tail(ks), Append(fn, "W"))
    ELSE IF Head(ks) = "KEY_BACKSPACE" THEN promptLoop(s, Tail(ks), fn)
    ELSE promptLoop(s, Tail(ks), Append(fn, Head(ks)))

\* 'w': prompt for a filename; s.pin holds the keys of the next prompts,
\* and a prompt with no keys left is ended by Escape
cmdWrite(s) ==
    LET ks == IF s.pin = <<>> THEN <<"Esc">> ELSE Head(s.pin)
        t  == [s EXCEPT !.smessage = Msg("Write file: ", <<>>),
                        !.pin = IF @ = <<>> THEN @ ELSE Tail(@)]
    IN  promptLoop(t, ks, <<>>)

cmdQuit_IgnoresDirty(s) == [s EXCEPT !.is_running = FALSE]

\* 'q'
cmdQuit(s) ==
    IF s.fstate = 2
    THEN [s EXCEPT !.smessage = Msg("No write since last change (use Q to override)!", <<>>)]
    ELSE [s EXCEPT !.is_running = FALSE]

\* 'Q'
cmdForceQuit(s) == [s EXCEPT !.is_running = FALSE]

cmdDelete_NoGuard(s) ==
    [mvCursor([s EXCEPT !.lines = rmLn(@, s.cy)], 0, -1) EXCEPT !.fstate = 2]

\* 'd'
cmdDelete(s) ==
    IF s.cy > 0
    THEN [mvCursor([s EXCEPT !.lines = rmLn(@, s.cy)], 0, -1) EXCEPT !.fstate = 2]
    ELSE [s EXCEPT !.smessage = Msg("Only one line left!", <<>>)]

\* any other character
cmdUnknown(s, ch) == [s EXCEPT !.smessage = Msg("Unknown command: ", <<ch>>), !.abort = TRUE]

LogEntry(s0, s1, ch, depth) ==
    [ch |-> ch, depth |-> depth, fstate0 |-> s0.fstate, run0 |-> s0.is_running,
     run1 |-> s1.is_running, msg1 |-> s1.smessage,
     n0 |-> Len(s0.lines), n1 |-> Len(s1.lines),
     fname0 |-> s0.fname, fname1 |-> s1.fname, fstate1 |-> s1.fstate,
     lines0 |-> s0.lines, lines1 |-> s1.lines, saved1 |-> s1.saved]

\* processCmd(c) at call depth `depth`; c is read by value: a call that reads
\* last_cmd returns before anything assigns last_cmd.  A call deeper than
\* MaxCallDepth ends the process (the recursion has no bound in the source).
RECURSIVE processCmd(_, _, _)
RECURSIVE cmdLoop(_, _, _, _)
RECURSIVE cmdChar(_, _, _)
RECURSIVE cmdAfter(_, _, _, _)

\* one character of the command text, with its log entry
cmdLogged(s, t, ch, depth) == [t EXCEPT !.cmdlog = Append(@, LogEntry(s, t, ch, depth))]

cmdChar(s, ch, depth) ==
    cmdLogged(s,
              IF ch = "." THEN processCmd(s, s.last_cmd, depth + 1)
              ELSE IF ch = "s" THEN cmdSave(s)
              ELSE IF ch = "w" THEN cmdWrite(s)
              ELSE IF ch = "q" THEN cmdQuit(s)
              ELSE IF ch = "Q" THEN cmdForceQuit(s)
              ELSE IF ch = "d" THEN cmdDelete(s)
              ELSE cmdUnknown(s, ch),
              ch, depth)

\* after character i gave t: the process is dead, or the call returns on an
\* unknown character, or the loop goes on
cmdAfter(t, c, i, depth) ==
    IF t.fatal # "none" THEN t
    ELSE IF t.abort THEN [t EXCEPT !.abort = FALSE]
    ELSE cmdLoop(t, c, i + 1, depth)

cmdLoop(s, c, i, depth) ==
    IF i > Len(c) THEN [s EXCEPT !.last_cmd = s.cmd]
    ELSE cmdAfter(cmdChar(s, c[i], depth), c, i, depth)

processCmd(s, c, depth) ==
    IF depth > MaxCallDepth THEN [s EXCEPT !.fatal = "stack"]
    ELSE IF c = <<>> THEN s
    ELSE cmdLoop(s, c, 1, depth)

----------------------------------------------------------------------------
(* Key dispatch *)

\* The keys of the model: the special keys by name, a printable character
\* (32..126) as itself, "Other" for a key the switch has no case for.
SpecialKeys == {"Up", "Down", "Left", "Right", "Bksp", "Enter", "Tab", "Esc", "Other"}

keyUp(s) ==
    IF s.edmode = 0
    THEN IF s.cy = 0 THEN mvCursor(s, -s.cx, 0) ELSE mvCursor(s, 0, -1)
    ELSE s

keyDown(s) ==
    IF s.edmode = 0
    THEN IF s.cy = Len(s.lines) - 1
         THEN mvCursor(s, LineLen(s.lines, s.cy) - s.cx, 0)
         ELSE mvCursor(s, 0, 1)
    ELSE s

keyLeft_AnyMode(s) == IF s.cx > 0 THEN mvCursor(s, -1, 0) ELSE s

keyLeft(s) == IF s.edmode = 0 /\ s.cx > 0 THEN mvCursor(s, -1, 0) ELSE s

keyRight(s) ==
    IF s.edmode = 0 /\ s.cx < LineLen(s.lines, s.cy) THEN mvCursor(s, 1, 0) ELSE s

keyBackspace_StaysAtStart(s) ==
    IF s.edmode = 0
    THEN LET t == IF s.cx = 0 /\ s.cy > 0
                  THEN mvCursor([s EXCEPT !.lines = jnLn(@, s.cy - 1)], 0, -1)
                  ELSE IF s.cx > 0
                       THEN mvCursor([s EXCEPT !.lines = rmCh(@, s.cx - 1, s.cy)], -1, 0)
                       ELSE s
         IN  [t EXCEPT !.fstate = 2]
    ELSE s

keyBackspace(s) ==
    IF s.edmode = 0
    THEN LET t == IF s.cx = 0 /\ s.cy > 0
                  THEN LET prevlen == LineLen(s.lines, s.cy - 1)
                           j == [s EXCEPT !.lines = jnLn(@, s.cy - 1)]
                       IN  mvCursor(mvCursor(j, 0, -1), prevlen, 0)
                  ELSE IF s.cx > 0
                       THEN mvCursor([s EXCEPT !.lines = rmCh(@, s.cx - 1, s.cy)], -1, 0)
                       ELSE s
         IN  [t EXCEPT !.fstate = 2]
    ELSE s

\* after processCmd returned t: cmd.clear(), edmode = 0 (never reached when the process died)
cmdDone(t) == IF t.fatal # "none" THEN t ELSE [t EXCEPT !.cmd = <<>>, !.edmode = 0]

keySplit(sp) == [mvCursor(sp, -LineLen(sp.lines, sp.cy), 1) EXCEPT !.fstate = 2]

keyEnter(s) ==
    IF s.edmode = 0 THEN keySplit([s EXCEPT !.lines = spLn(@, s.cx, s.cy)])
    ELSE IF s.edmode = 1 THEN cmdDone(processCmd(s, s.cmd, 1))
    ELSE s

keyTab_AdvancesOne(s) ==
    IF s.edmode = 0
    THEN LET i1 == insCh(s.lines, s.cx, s.cy, " ")
             i2 == insCh(i1, s.cx, s.cy, " ")
             i3 == insCh(i2, s.cx, s.cy, " ")
             i4 == insCh(i3, s.cx, s.cy, " ")
         IN  [mvCursor([s EXCEPT !.lines = i4], 1, 0) EXCEPT !.fstate = 2]
    ELSE s

keyTab(s) ==
    IF s.edmode = 0
    THEN LET i1 == insCh(s.lines, s.cx, s.cy, " ")
             i2 == insCh(i1, s.cx, s.cy, " ")
             i3 == insCh(i2, s.cx, s.cy, " ")
             i4 == insCh(i3, s.cx, s.cy, " ")
         IN  [mvCursor([s EXCEPT !.lines = i4], 4, 0) EXCEPT !.fstate = 2]
    ELSE s

\* cmd.clear() follows the if/else whatever its indentation says
keyEsc(s) ==
    LET t == IF s.edmode = 0 THEN [s EXCEPT !.edmode = 1]
             ELSE IF s.edmode = 1 THEN [s EXCEPT !.edmode = 0]
             ELSE s
    IN  [t EXCEPT !.cmd = <<>>]

keyChar_KeepsClean(s, ch) ==
    IF s.edmode = 0
    THEN mvCursor([s EXCEPT !.lines = insCh(@, s.cx, s.cy, ch)], 1, 0)
    ELSE IF s.edmode = 1 THEN [s EXCEPT !.cmd = Append(@, ch)]
    ELSE s

keyChar(s, ch) ==
    IF s.edmode = 0
    THEN [mvCursor([s EXCEPT !.lines = insCh(@, s.cx, s.cy, ch)], 1, 0) EXCEPT !.fstate = 2]
    ELSE IF s.edmode = 1 THEN [s EXCEPT !.cmd = Append(@, ch)]
    ELSE s

----------------------------------------------------------------------------
(* The state machine *)

front_rows == Len(front)

\* the editor as a record, with the environment's answers for this step
St(pin, io) ==
    [lines |-> lines, cx |-> cx, cy |-> cy, ox |-> ox, oy |-> oy, ax |-> ax, ay |-> ay,
     front_rows |-> front_rows, fstate |-> fstate, edmode |-> edmode, fname |-> fname,
     smessage |-> smessage, cmd |-> cmd, last_cmd |-> last_cmd,
     is_running |-> is_running, fatal |-> fatal, saved |-> saved,
     mvlog |-> <<>>, cmdlog |-> <<>>, abort |-> FALSE, pin |-> pin, io |-> io]

TextKeys == {"Enter", "Tab"}

\* one pass of processEvents: key ch took the editor to s
Event(ch, s) ==
    /\ pc = "events"
    /\ lines' = s.lines /\ cx' = s.cx /\ cy' = s.cy /\ ox' = s.ox /\ oy' = s.oy
    /\ fstate' = s.fstate /\ edmode' = s.edmode /\ fname' = s.fname
    /\ smessage' = s.smessage /\ cmd' = s.cmd /\ last_cmd' = s.last_cmd
    /\ is_running' = s.is_running /\ fatal' = s.fatal
    /\ mvlog' = s.mvlog /\ cmdlog' = s.cmdlog /\ saved' = s.saved
    /\ key' = IF s = St(<<>>, <<>>) THEN "none" ELSE ch
    /\ typed' = IF typed # <<"-">> /\ edmode = 0 /\ ch \notin (SpecialKeys \ TextKeys)
                THEN Append(typed, ch) ELSE <<"-">>
    /\ pc' = "update"
    /\ drawn' = {} /\ cursor' = <<>>
    /\ UNCHANGED <<mx, my, ax, ay, is_ws_changed, front, back, term>>

KeyUp        == Event("Up", keyUp(St(<<>>, <<>>)))
KeyDown      == Event("Down", keyDown(St(<<>>, <<>>)))
KeyLeft      == Event("Left", keyLeft(St(<<>>, <<>>)))
KeyRight     == Event("Right", keyRight(St(<<>>, <<>>)))
KeyBackspace == Event("Bksp", keyBackspace(St(<<>>, <<>>)))
KeyTab       == Event("Tab", keyTab(St(<<>>, <<>>)))
KeyEsc       == Event("Esc", keyEsc(St(<<>>, <<>>)))
KeyOther     == Event("Other", St(<<>>, <<>>))
KeyChar(ch)  == Event(ch, keyChar(St(<<>>, <<>>), ch))
KeyEnter(pin, io) == Event("Enter", keyEnter(St(pin, io)))

\* std::string(n, ' ')
Spaces(n) == [i \in 1..n |-> " "]

\* expandTabs: one pass of its loop, from the text and the column so far
ExpandStep(e, c) ==
    IF c = "\t"
    THEN [ret |-> e.ret \o Spaces(tab_width - (e.col % tab_width)),
          col |-> e.col + (tab_width - (e.col % tab_width))]
    ELSE [ret |-> Append(e.ret, c), col |-> e.col + 1]

\* the loop over characters lo..hi of s, cut in halves
RECURSIVE ExpandFrom(_, _, _, _)
ExpandFrom(s, lo, hi, e) ==
    IF lo > hi THEN e
    ELSE IF lo = hi THEN ExpandStep(e, s[lo])
    ELSE LET mid  == (lo + hi) \div 2
             left == ExpandFrom(s, lo, mid, e)
         IN  IF left.col >= 0 THEN ExpandFrom(s, mid + 1, hi, left) ELSE e

expandTabs(s) == ExpandFrom(s, 1, Len(s), [ret |-> <<>>, col |-> 0]).ret

\* A row of a frame or of the screen is a string that ends in spaces.  It is
\* kept as its text up to the last character that is not a space, with its
\* length: two rows are equal exactly when the strings are.
RECURSIVE LastFrom(_, _, _)
LastFrom(s, lo, hi) ==
    IF lo > hi THEN 0
    ELSE IF lo = hi THEN (IF s[lo] # " " THEN lo ELSE 0)
    ELSE LET r == LastFrom(s, ((lo + hi) \div 2) + 1, hi)
         IN  IF r > 0 THEN r ELSE LastFrom(s, lo, (lo + hi) \div 2)

\* the string s followed by spaces up to length w (w >= Len(s))
Row(s, w) == [text |-> SubSeq(s, 1, LastFrom(s, 1, Len(s))), len |-> w]

\* the string of a row
Str(r) == r.text \o Spaces(r.len - Len(r.text))

\* update()'s getVisible: the part of the expanded line from column o on,
\* cut or padded to w columns
getVisible(l, o, w) ==
    LET estr == expandTabs(l)
    IN  IF Len(estr) > o
        THEN LET cp_len == Min(w, Len(estr) - o)
             IN  Row(SubSeq(estr, o + 1, o + cp_len), w)
        ELSE Row(<<>>, w)

\* the target frame update() builds: h rows of w columns from origin (x, y)
Target(ls, x, y, w, h) ==
    [i \in 1..h |-> IF (i - 1) + y < Len(ls) THEN getVisible(ls[i + y], x, w)
                    ELSE Row(<<"~">>, w)]

\* vecstr::resize(h, std::string(w, ' ')): rows are dropped from the end or
\* rows of spaces added; the rows that stay keep their content
Resized(f, h, w) == [i \in 1..h |-> IF i <= Len(f) THEN f[i] ELSE Row(<<>>, w)]

\* escPercent, cut in halves
RECURSIVE EscFrom(_, _, _)
EscFrom(s, lo, hi) ==
    IF lo > hi THEN <<>>
    ELSE IF lo = hi THEN (IF s[lo] = "%" THEN <<"%", "%">> ELSE <<s[lo]>>)
    ELSE EscFrom(s, lo, (lo + hi) \div 2) \o EscFrom(s, ((lo + hi) \div 2) + 1, hi)

escPercent(s) == EscFrom(s, 1, Len(s))

\* what a formatted write without arguments puts on the screen for the
\* format string s.  One character of the scan: after a '%', a second '%'
\* prints one '%'; any other character makes a conversion that has no
\* argument, shown here as "?".
FormatStep(f, c) ==
    IF f.pend THEN [out |-> Append(f.out, IF c = "%" THEN "%" ELSE "?"), pend |-> FALSE]
    ELSE IF c = "%" THEN [f EXCEPT !.pend = TRUE]
    ELSE [f EXCEPT !.out = Append(@, c)]

RECURSIVE FormatFrom(_, _, _, _)
FormatFrom(s, lo, hi, f) ==
    IF lo > hi THEN f
    ELSE IF lo = hi THEN FormatStep(f, s[lo])
    ELSE LET mid  == (lo + hi) \div 2
             left == FormatFrom(s, lo, mid, f)
         IN  IF Len(left.out) >= 0 THEN FormatFrom(s, mid + 1, hi, left) ELSE f

\* what the screen shows for the format string escPercent(Str(r)).  The
\* spaces that end the row go through escPercent and the scan as they are;
\* only a '%' left pending by the text would take the first of them.
Shown(r) ==
    LET e   == escPercent(r.text)
        f   == FormatFrom(e, 1, Len(e), [out |-> <<>>, pend |-> FALSE])
        pad == r.len - Len(r.text)
    IN  IF f.pend /\ pad > 0 THEN Row(Append(f.out, "?"), Len(f.out) + pad)
        ELSE Row(f.out, Len(f.out) + pad)

\* a diff that compares the first column of each row only
Differing_FirstColumn(f, b) ==
    {i \in 0..(Len(b) - 1) : Str(f[i + 1])[1] # Str(b[i + 1])[1]}

\* the rows (from 0) a pass without forced redraw writes: those where the
\* last-drawn frame f and the target b differ
Differing(f, b) == {i \in 0..(Len(b) - 1) : f[i + 1] # b[i + 1]}

\* the frame after rows d of target b were copied into f
Copied(f, b, d) == [i \in 1..Len(b) |-> IF (i - 1) \in d THEN b[i] ELSE f[i]]

\* the screen's body rows t after mvprintw(i, 0, escPercent(b[i]).c_str()) for
\* the rows i in d: row i shows the formatted text (a frame row is as wide
\* as the screen)
Written(t, b, d) == [i \in 1..Len(b) |-> IF (i - 1) \in d THEN Shown(b[i]) ELSE t[i]]

\* the column and row render() hands to move()
visual_cx(ls, x, y) == IF y < Len(ls) THEN visualLength(SubSeq(ls[y + 1], 1, x)) ELSE 0

\* std::to_string of a natural number
Digits == <<"0", "1", "2", "3", "4", "5", "6", "7", "8", "9">>

RECURSIVE to_string(_)
to_string(n) ==
    IF n < 10 THEN <<Digits[n + 1]>>
    ELSE Append(to_string(n \div 10), Digits[(n % 10) + 1])

\* the status bar's left part: the display name and the dirty mark
dname(fn) == IF Len(fn) >= 23 THEN SubSeq(fn, 1, 20) \o <<".", ".", ".">> ELSE fn

info(fn, fs) ==
    (IF dname(fn) = <<>> THEN <<"[", "N", "E", "W", " ", "F", "I", "L", "E", "]">> ELSE dname(fn))
        \o (IF fs = 2 THEN <<"[", "+", "]">> ELSE <<>>)

\* its right part, for the cursor at column x of row y
position(x, y) ==
    <<"L", "n", " ">> \o to_string(y + 1) \o <<",", " ", "C", "o", "l", " ">> \o to_string(x + 1)

\* the count handed to std::string(count, ' ') between the two
StatusPad(w, fn, fs, x, y) == w - Len(info(fn, fs)) - Len(position(x, y))

\* sbar, when the count is not negative
sbar(w, fn, fs, x, y) ==
    info(fn, fs) \o [i \in 1..StatusPad(w, fn, fs, x, y) |-> " "] \o position(x, y)

\* update(): the terminal reports ny rows and nx columns.  A negative count
\* for the status bar's padding is a huge size_t: std::string throws
\* std::length_error and main's catch (...) ends the process.
Update(ny, nx) ==
    /\ pc = "update" /\ is_running /\ fatal = "none"
    /\ IF mx # nx \/ my # ny
       THEN /\ is_ws_changed' = TRUE
            /\ mx' = nx /\ my' = ny /\ ax' = nx /\ ay' = ny - 2
            /\ IF ULt(nx, MinCols) \/ ULt(ny - 2, MinBodyRows)
               THEN fatal' = "size" /\ UNCHANGED <<front, back>>
               ELSE IF ny - 2 < 0
                    THEN fatal' = "alloc" /\ UNCHANGED <<front, back>>
                    ELSE /\ back' = Target(lines, ox, oy, nx, ny - 2)
                         /\ front' = Resized(front, ny - 2, nx)
                         /\ fatal' = IF StatusPad(nx, fname, fstate, cx, cy) < 0
                                     THEN "length" ELSE "none"
       ELSE /\ UNCHANGED <<is_ws_changed, mx, my, ax, ay, front>>
            /\ back' = Target(lines, ox, oy, ax, ay)
            /\ fatal' = IF StatusPad(nx, fname, fstate, cx, cy) < 0 THEN "length" ELSE "none"
    /\ pc' = IF fatal' = "none" THEN "render" ELSE pc
    /\ key' = "none" /\ mvlog' = <<>> /\ cmdlog' = <<>>
    /\ UNCHANGED <<lines, cx, cy, ox, oy, fstate, edmode, fname, smessage, cmd, last_cmd,
                   is_running, term, drawn, cursor, saved, typed>>

\* render().  A forced redraw clears the screen, copies the target frame and
\* writes every row; otherwise front takes back's size and the rows that
\* differ are copied and written.  The status bar and the message are mx
\* characters at rows my - 2 and my - 1, below the body rows.
Render ==
    /\ pc = "render"
    /\ IF is_ws_changed
       THEN /\ front' = back
            /\ drawn' = 0..(Len(back) - 1)
            /\ term' = Written([i \in 1..Len(back) |-> Row(<<>>, mx)], back, drawn')
            /\ is_ws_changed' = FALSE
       ELSE LET f == Resized(front, Len(back), 0)
                d == Differing(f, back)
            IN  /\ drawn' = d
                /\ front' = Copied(f, back, d)
                /\ term' = Written(term, back, d)
                /\ UNCHANGED is_ws_changed
    /\ cursor' = <<cy - oy, visual_cx(lines, cx, cy) - ox>>
    /\ pc' = "events"
    /\ UNCHANGED <<lines, cx, cy, ox, oy, mx, my, ax, ay, fstate, edmode, fname, smessage,
                   cmd, last_cmd, is_running, back, fatal, key, mvlog, cmdlog, saved, typed>>

\* init(argc, argv) followed by run()'s is_running = true.  st tells what the
\* command line and the file system gave: st.arg the filename argument
\* (st.given: whether there is one), st.exists whether the file exists,
\* st.err the message of a failed load (<<>> for none), st.content its lines.
InitWith(st, ny, nx) ==
    LET fback == ~st.given \/ st.arg = <<>> \/ ~valFn(st.arg) \/ (st.exists /\ st.err # <<>>)
        loaded == st.given /\ st.arg # <<>> /\ valFn(st.arg) /\ st.exists /\ st.err = <<>>
    IN
    /\ lines = IF loaded /\ st.content # <<>> THEN st.content ELSE << <<>> >>
    /\ fname = IF fback THEN <<>> ELSE st.arg
    /\ fstate = IF loaded THEN 1 ELSE 0
    /\ smessage = IF st.given /\ st.arg # <<>> /\ ~valFn(st.arg) THEN Msg("Invalid filename!", <<>>)
                  ELSE IF st.given /\ st.arg # <<>> /\ st.exists /\ st.err # <<>> THEN st.err
                  ELSE Msg("", <<>>)
    /\ cx = 0 /\ cy = 0 /\ ox = 0 /\ oy = 0
    /\ edmode = 0 /\ cmd = <<>> /\ last_cmd = <<>>
    /\ mx = nx /\ my = ny /\ ax = nx /\ ay = ny - 2
    /\ IF ULt(nx, MinCols) \/ ULt(ny - 2, MinBodyRows)
       THEN fatal = "size" /\ back = <<>> /\ front = <<>> /\ is_ws_changed = FALSE
       ELSE IF ny - 2 < 0
            THEN fatal = "alloc" /\ back = <<>> /\ front = <<>> /\ is_ws_changed = FALSE
            ELSE fatal = "none" /\ back = Resized(<<>>, ny - 2, nx)
                 /\ front = Resized(<<>>, ny - 2, nx) /\ is_ws_changed = TRUE
    /\ term = <<>> /\ drawn = {} /\ cursor = <<>>
    /\ is_running = (fatal = "none")
    /\ pc = "update"
    /\ key = "none" /\ mvlog = <<>> /\ cmdlog = <<>>
    /\ saved = lines
    /\ typed = IF lines = << <<>> >> THEN <<>> ELSE <<"-">>

----------------------------------------------------------------------------
(* Spec: the whole key dispatcher from startup, on small texts *)

\* what startup may find: no argument, a file of three lines, an empty file,
\* a name with no file, a file that does not load, an invalid name
File3 == << <<"a">>, <<>>, <<"b">> >>

Startup(given, arg, exists, err, content) ==
    [given |-> given, arg |-> arg, exists |-> exists, err |-> err, content |-> content]

Startups ==
    { Startup(FALSE, <<>>, FALSE, <<>>, <<>>),
      Startup(TRUE, <<"n">>, TRUE, <<>>, File3),
      Startup(TRUE, <<"n">>, TRUE, <<>>, <<>>) }

\* terminal sizes <<rows, columns>>: the smallest accepted, and one too small
TermSizes == {<<14, 40>>, <<13, 40>>}

\* the printable keys typed in Edit mode
EditChars == {"a"}

\* the command texts typed in Command mode, with their prefixes
CmdTexts ==
    { <<"d">>, <<"d", "d">>, <<"d", "d", "d">>, <<"d", "x">>,
      <<"q">>,
      <<"Q">>, <<"Q", "q">>,
      <<".">>, <<".", ".">>, <<".", "x">>,
      <<"x">>, <<"x", "d">> }

CmdChars == UNION {Range(c) : c \in CmdTexts}

\* the text grows only within the bounds, the pending command within CmdTexts
Within ==
    /\ Len(lines') > Len(lines) => Len(lines') <= MaxLines
    /\ TotalChars(lines') > TotalChars(lines) => TotalChars(lines') <= MaxChars
    /\ Len(cmd') > Len(cmd) => cmd' \in CmdTexts

Init == \E st \in Startups, sz \in TermSizes : InitWith(st, sz[1], sz[2])

Next ==
    \/ \E sz \in TermSizes : Update(sz[1], sz[2])
    \/ Render
    \/ KeyUp
    \/ KeyDown
    \/ KeyLeft
    \/ KeyRight
    \/ KeyBackspace
    \/ KeyEnter(<<>>, <<>>) /\ Within
    \/ KeyTab /\ Within
    \/ KeyEsc
    \/ KeyOther
    \/ \E ch \in (IF edmode = 0 THEN EditChars ELSE CmdChars) : KeyChar(ch) /\ Within

Spec == Init /\ [][Next]_vars

----------------------------------------------------------------------------
(* SpecText: text entry and editing in Edit mode, from a new buffer *)

TextChars == {"a"}

WithinText ==
    /\ Len(lines') > Len(lines) => Len(lines') <= MaxTextLines
    /\ TotalChars(lines') > TotalChars(lines) => TotalChars(lines') <= MaxTextChars

TextSizes == {<<14, 40>>}

InitText ==
    \E sz \in TextSizes : InitWith(Startup(FALSE, <<>>, FALSE, <<>>, <<>>), sz[1], sz[2])

NextText ==
    \/ \E sz \in TextSizes : Update(sz[1], sz[2])
    \/ Render
    \/ KeyUp
    \/ KeyDown
    \/ KeyLeft
    \/ KeyRight
    \/ KeyBackspace
    \/ KeyEnter(<<>>, <<>>) /\ WithinText
    \/ KeyTab /\ WithinText
    \/ \E ch \in TextChars : KeyChar(ch) /\ WithinText

SpecText == InitText /\ [][NextText]_vars

----------------------------------------------------------------------------
(* SpecView: moving through a loaded file larger than the viewport, while   *)
(* the terminal is resized                                                  *)

Rep(c, n) == [i \in 1..n |-> c]

\* twelve empty lines, then two lines of 41 characters
BigFile == [i \in 1..14 |-> IF i <= 12 THEN <<>> ELSE Rep("a", 41)]

ViewSizes == {<<16, 42>>, <<14, 40>>}

InitView ==
    \E sz \in ViewSizes : InitWith(Startup(TRUE, <<"n">>, TRUE, <<>>, BigFile), sz[1], sz[2])

NextView ==
    \/ \E sz \in ViewSizes : Update(sz[1], sz[2])
    \/ Render
    \/ KeyUp
    \/ KeyDown
    \/ KeyLeft
    \/ KeyRight

SpecView == InitView /\ [][NextView]_vars

----------------------------------------------------------------------------
(* SpecFile: saving and writing, with the prompt's keys and the outcome of   *)
(* each open of the output file given by the environment                    *)

\* what startup may find here: no argument, or a name that has no file yet
FileStartups ==
    { Startup(FALSE, <<>>, FALSE, <<>>, <<>>), Startup(TRUE, <<"n">>, FALSE, <<>>, <<>>) }

\* the keys typed into one filename prompt
Prompts ==
    { <<"Esc">>, <<"f", "Enter">>, <<"?", "Enter">>, <<"f", "Bksp", "Enter">> }

\* the outcomes of the opens of one confirmation: all succeed, or the first fails
Opens == { <<>>, <<FALSE>> }

FileCmdTexts ==
    { <<"s">>, <<"s", "q">>, <<"w">>, <<"w", "s">>, <<"d">>, <<"d", "s">>, <<".">> }

FileCmdChars == UNION {Range(c) : c \in FileCmdTexts}

WithinFile ==
    /\ Len(lines') > Len(lines) => Len(lines') <= MaxFileLines
    /\ TotalChars(lines') > TotalChars(lines) => TotalChars(lines') <= MaxFileChars
    /\ Len(cmd') > Len(cmd) => cmd' \in FileCmdTexts

InitFile == \E st \in FileStartups, sz \in TextSizes : InitWith(st, sz[1], sz[2])

NextFile ==
    \/ \E sz \in TextSizes : Update(sz[1], sz[2])
    \/ Render
    \/ KeyBackspace
    \/ KeyEsc
    \/ \E p \in Prompts, io \in Opens : KeyEnter(<<p>>, io) /\ WithinFile
    \/ \E ch \in (IF edmode = 0 THEN EditChars ELSE FileCmdChars) : KeyChar(ch) /\ WithinFile

SpecFile == InitFile /\ [][NextFile]_vars

----------------------------------------------------------------------------
(* SpecStatus: the status bar on a long file with a long name, in the       *)
(* narrowest terminal                                                       *)

\* a valid filename of 23 characters
LongName == Rep("n", 23)

\* empty lines, then one line of StatusCols characters
StatusFile == [i \in 1..StatusRows |-> IF i < StatusRows THEN <<>> ELSE Rep("a", StatusCols)]

\* one character is typed, anywhere
WithinStatus == TotalChars(lines') <= StatusCols + 1

InitStatus ==
    \E sz \in TextSizes : InitWith(Startup(TRUE, LongName, TRUE, <<>>, StatusFile), sz[1], sz[2])

NextStatus ==
    \/ \E sz \in TextSizes : Update(sz[1], sz[2])
    \/ Render
    \/ KeyDown
    \/ \E ch \in EditChars : KeyChar(ch) /\ WithinStatus

SpecStatus == InitStatus /\ [][NextStatus]_vars

----------------------------------------------------------------------------
(* SpecSize: editing a new buffer while the terminal takes sizes around and *)
(* below the smallest accepted one                                          *)

\* <<rows, columns>>: accepted, one row short, one column short, one row, no row
SmallSizes == {<<14, 40>>, <<13, 40>>, <<14, 39>>, <<1, 40>>, <<0, 40>>}

InitSize ==
    \E sz \in SmallSizes : InitWith(Startup(FALSE, <<>>, FALSE, <<>>, <<>>), sz[1], sz[2])

NextSize ==
    \/ \E sz \in SmallSizes : Update(sz[1], sz[2])
    \/ Render
    \/ KeyUp
    \/ KeyDown
    \/ KeyLeft
    \/ KeyRight
    \/ KeyBackspace
    \/ KeyEnter(<<>>, <<>>) /\ Within
    \/ \E ch \in EditChars : KeyChar(ch) /\ Within

SpecSize == InitSize /\ [][NextSize]_vars

----------------------------------------------------------------------------
(* SpecDraw: drawing a loaded file with tabs and percent signs that is      *)
(* larger than the viewport on both axes, while it is edited, scrolled and  *)
(* the terminal is resized                                                  *)

\* eleven empty lines, a line with a tab and a percent sign, and a line of
\* 41 characters
DrawFile ==
    [i \in 1..13 |-> IF i <= 11 THEN <<>>
                     ELSE IF i = 12 THEN <<"\t", "%">>
                     ELSE Rep("a", 41)]

DrawChars == {"a"}

\* the text is one edit away from the file: an edit is made on the file as
\* loaded, or takes the text back to it
WithinDraw == lines = DrawFile \/ lines' = DrawFile

InitDraw ==
    \E sz \in ViewSizes : InitWith(Startup(TRUE, <<"n">>, TRUE, <<>>, DrawFile), sz[1], sz[2])

NextDraw ==
    \/ \E sz \in ViewSizes : Update(sz[1], sz[2])
    \/ Render
    \/ KeyUp
    \/ KeyDown
    \/ KeyLeft
    \/ KeyRight
    \/ KeyBackspace /\ WithinDraw
    \/ \E ch \in DrawChars : KeyChar(ch) /\ WithinDraw

SpecDraw == InitDraw /\ [][NextDraw]_vars

----------------------------------------------------------------------------
(* Properties *)

RefusalMsg == Msg("No write since last change (use Q to override)!", <<>>)

\* C1: after any sequence of key events and confirmed commands from startup
\* the Document holds at least one line.
C1_DocumentNeverEmpty == Len(lines) >= 1

\* a 'd' was refused on a Document of one line
C1_Witness ==
    /\ Len(lines) = 1
    /\ \E i \in 1..Len(cmdlog) : cmdlog[i].ch = "d" /\ cmdlog[i].n0 = 1 /\ cmdlog[i].n1 = 1
    /\ \E i \in 1..Len(cmdlog) : cmdlog[i].ch = "d" /\ cmdlog[i].n1 < cmdlog[i].n0

\* C2: after every mvCursor call of a step the cursor is on a line of the
\* Document and at a column from 0 to that line's length.
C2_CursorInRange ==
    \A i \in 1..Len(mvlog) :
        /\ 0 <= mvlog[i].cy /\ mvlog[i].cy < mvlog[i].n
        /\ 0 <= mvlog[i].cx /\ mvlog[i].cx <= mvlog[i].len

\* the mvCursor call that follows the deletion of a row has left the cursor
\* on the last row, at the end of its text
C2_Witness ==
    /\ key = "Enter" /\ Len(mvlog) = 1
    /\ \E i \in 1..Len(cmdlog) : cmdlog[i].ch = "d" /\ cmdlog[i].n1 < cmdlog[i].n0
    /\ mvlog[1].cy = mvlog[1].n - 1
    /\ mvlog[1].cx = mvlog[1].len /\ mvlog[1].len > 0

\* C4 (as claimed): confirming a command of k 'd' on a Document of n lines
\* leaves max(1, n - k) lines, wherever the cursor is.
C4_DeleteLeavesMax ==
    (/\ cmdlog # <<>>
     /\ \A i \in 1..Len(cmdlog) : cmdlog[i].ch = "d" /\ cmdlog[i].depth = 1)
    => Len(lines) = Max(1, cmdlog[1].n0 - Len(cmdlog))

\* C5: 'q' on a modified Document leaves is_running as it was (true, in a
\* running editor) and sets the refusal message; 'q' otherwise, and 'Q'
\* always, set is_running false.
C5_QuitRespectsDirty ==
    \A i \in 1..Len(cmdlog) :
        /\ (cmdlog[i].ch = "q" /\ cmdlog[i].fstate0 = 2)
           => cmdlog[i].run1 = cmdlog[i].run0 /\ cmdlog[i].msg1 = RefusalMsg
        /\ (cmdlog[i].ch = "q" /\ cmdlog[i].fstate0 # 2) => ~cmdlog[i].run1
        /\ cmdlog[i].ch = "Q" => ~cmdlog[i].run1

\* 'q' was refused and the editor still runs
C5_Witness ==
    /\ is_running /\ smessage = RefusalMsg /\ fstate = 2
    /\ \E i \in 1..Len(cmdlog) : cmdlog[i].ch = "q" /\ cmdlog[i].run0 /\ cmdlog[i].run1

\* C3 (as claimed): after every mvCursor call the cursor lies inside the
\* viewport on both axes.
C3_CursorInViewport ==
    \A i \in 1..Len(mvlog) :
        /\ mvlog[i].ox <= mvlog[i].cx /\ mvlog[i].cx < mvlog[i].ox + mvlog[i].ax
        /\ mvlog[i].oy <= mvlog[i].cy /\ mvlog[i].cy < mvlog[i].oy + mvlog[i].ay

\* C6 (as claimed): Escape toggles the mode, Enter in Command mode goes to
\* Edit mode, each leaves the pending command empty, and nothing else
\* changes the mode.
C6_ModeTransitions ==
    [][/\ KeyEsc => (edmode' = 1 - edmode /\ cmd' = <<>>)
       /\ (KeyEnter(<<>>, <<>>) /\ edmode = 1) => (edmode' = 0 /\ cmd' = <<>>)
       /\ edmode' # edmode => (KeyEsc \/ (KeyEnter(<<>>, <<>>) /\ edmode = 1))]_vars

\* the text a Backspace at (c, r) leaves, written on the sequences themselves
JoinedAt(ls, r) ==
    [i \in 1..(Len(ls) - 1) |->
        IF i < r THEN ls[i] ELSE IF i = r THEN ls[r] \o ls[r + 1] ELSE ls[i + 1]]

WithoutChar(l, c) == [i \in 1..(Len(l) - 1) |-> IF i < c THEN l[i] ELSE l[i + 1]]

\* C7: Backspace in Edit mode: at column 0 of a row r > 0 it joins row r onto
\* row r - 1 and puts the cursor at (old length of row r - 1, r - 1); at a
\* column c > 0 it removes the character at c - 1 and puts the cursor at
\* (c - 1, r); at (0, 0) it leaves Document and cursor alone.
C7_Backspace ==
    [][(KeyBackspace /\ edmode = 0) =>
         IF cx = 0 /\ cy > 0
         THEN lines' = JoinedAt(lines, cy) /\ cx' = Len(lines[cy]) /\ cy' = cy - 1
         ELSE IF cx > 0
              THEN /\ lines' = [lines EXCEPT ![cy + 1] = WithoutChar(@, cx)]
                   /\ cx' = cx - 1 /\ cy' = cy
              ELSE lines' = lines /\ cx' = cx /\ cy' = cy]_vars

\* a Backspace has joined two lines that both hold text, another line remaining
C7_Witness ==
    /\ key = "Bksp" /\ Len(mvlog) = 2
    /\ cx > 0 /\ cx < Len(lines[cy + 1])
    /\ Len(lines) >= 2

\* the Document that typing the keys ks into a new buffer must give
RECURSIVE TypedLines(_)
TypedLines(ks) ==
    IF ks = <<>> THEN << <<>> >>
    ELSE LET before == TypedLines(SubSeq(ks, 1, Len(ks) - 1))
             k == ks[Len(ks)]
             n == Len(before)
         IN  IF k = "Enter" THEN Append(before, <<>>)
             ELSE IF k = "Tab"
                  THEN [before EXCEPT ![n] = @ \o <<" ", " ", " ", " ">>]
                  ELSE [before EXCEPT ![n] = Append(@, k)]

\* C8: after any sequence of printable characters, Tab and Enter typed into a
\* new buffer, the Document is the typed text split at each Enter (a Tab
\* being four spaces) and the cursor is at (length of the last line, number
\* of Enters).
C8_TypedText ==
    typed # <<"-">> =>
        /\ lines = TypedLines(typed)
        /\ cx = Len(lines[Len(lines)])
        /\ cy = Cardinality({i \in 1..Len(typed) : typed[i] = "Enter"})

\* text, a Tab and two Enters have been typed, the last line holding text
C8_Witness ==
    /\ typed # <<"-">>
    /\ {"Tab", "Enter", "a"} \subseteq Range(typed)
    /\ Cardinality({i \in 1..Len(typed) : typed[i] = "Enter"}) = 2
    /\ typed[Len(typed)] = "a" /\ typed[1] # "Enter"

\* C9: for every row r and column c from 0 to the length of row r, spLn(c, r)
\* then jnLn(r) gives back the Document: row r, the line count and every
\* other line.
C9_SplitJoinRoundTrip ==
    \A r \in 0..(Len(lines) - 1) :
        \A c \in 0..Len(lines[r + 1]) :
            jnLn(spLn(lines, c, r), r) = lines

\* Enter has just split a line inside its text, with a line before it
C9_Witness ==
    /\ key = "Enter" /\ cy >= 2
    /\ lines[cy] # <<>> /\ lines[cy + 1] # <<>>
    /\ Len(jnLn(lines, cy - 1)) = Len(lines) - 1
    /\ jnLn(lines, cy - 1)[cy] = lines[cy] \o lines[cy + 1]

\* C10: for every row r, column c from 0 to the length of row r and
\* character ch, insCh(c, r, ch) then rmCh(c, r) gives back row r.
C10_InsertDeleteRoundTrip ==
    \A r \in 0..(Len(lines) - 1) :
        \A c \in 0..Len(lines[r + 1]) :
            \A ch \in TextChars \cup {" "} :
                rmCh(insCh(lines, c, r, ch), c, r)[r + 1] = lines[r + 1]

\* a character has just been typed inside a line, before a different one
C10_Witness ==
    /\ key \in TextChars
    /\ cx >= 2 /\ cx < Len(lines[cy + 1])
    /\ lines[cy + 1][cx + 1] # key
    /\ rmCh(lines, cx - 1, cy) # lines

\* C11 (as claimed): after Enter confirms a non-empty pending command S in
\* Command mode, last_cmd equals S, whatever each character of S did.
C11_LastCmdStored ==
    [][(KeyEnter(<<>>, <<>>) /\ edmode = 1 /\ cmd # <<>>) => last_cmd' = cmd]_vars

\* the command characters processCmd knows
KnownCmds == {".", "s", "w", "q", "Q", "d"}

\* the place of the first unknown character of c, 0 when it has none
FirstUnknown(c) ==
    IF \A i \in 1..Len(c) : c[i] \in KnownCmds THEN 0
    ELSE CHOOSE i \in 1..Len(c) :
             c[i] \notin KnownCmds /\ \A j \in 1..(i - 1) : c[j] \in KnownCmds

\* C12 (as claimed): when the confirmed command holds an unknown character,
\* the unknown-command message is set and the Document, cursor, file state
\* and is_running are what the characters up to it alone leave.
C12_UnknownAborts ==
    [][(KeyEnter(<<>>, <<>>) /\ edmode = 1 /\ FirstUnknown(cmd) > 0) =>
        /\ smessage' = Msg("Unknown command: ", <<cmd[FirstUnknown(cmd)]>>)
        /\ <<lines', cx', cy', fstate', is_running'>> =
              <<processCmd(St(<<>>, <<>>), SubSeq(cmd, 1, FirstUnknown(cmd)), 1).lines,
                processCmd(St(<<>>, <<>>), SubSeq(cmd, 1, FirstUnknown(cmd)), 1).cx,
                processCmd(St(<<>>, <<>>), SubSeq(cmd, 1, FirstUnknown(cmd)), 1).cy,
                processCmd(St(<<>>, <<>>), SubSeq(cmd, 1, FirstUnknown(cmd)), 1).fstate,
                processCmd(St(<<>>, <<>>), SubSeq(cmd, 1, FirstUnknown(cmd)), 1).is_running>>]_vars

\* a log entry of an 's' or 'w' that wrote the file
SaveOK(e) == e.ch \in {"s", "w"} /\ e.msg1[1] = "Successfully written to"

\* C13: the bound filename changes and the dirty flag is cleared only by a
\* successful save; an 's' with no bound filename and a 'w' ended by Escape,
\* by an empty or invalid filename or by a failed write leave the filename,
\* the file state and the Document as they were.
C13_OnlySaveBinds ==
    [][/\ \A i \in 1..Len(cmdlog') :
            /\ (cmdlog'[i].ch # "."
                  /\ (cmdlog'[i].fname1 # cmdlog'[i].fname0
                        \/ (cmdlog'[i].fstate1 # cmdlog'[i].fstate0 /\ cmdlog'[i].fstate1 # 2)))
               => /\ SaveOK(cmdlog'[i])
                  /\ cmdlog'[i].fstate1 = 1
                  /\ cmdlog'[i].saved1 = cmdlog'[i].lines1
                  /\ cmdlog'[i].ch = "s" => cmdlog'[i].fname1 = cmdlog'[i].fname0
            /\ (cmdlog'[i].ch \in {"s", "w"} /\ ~SaveOK(cmdlog'[i]))
               => /\ cmdlog'[i].fname1 = cmdlog'[i].fname0
                  /\ cmdlog'[i].fstate1 = cmdlog'[i].fstate0
                  /\ cmdlog'[i].lines1 = cmdlog'[i].lines0
            /\ (cmdlog'[i].ch = "s" /\ cmdlog'[i].fname0 = <<>>) => ~SaveOK(cmdlog'[i])
       /\ cmdlog' = <<>> => (fname' = fname /\ (fstate' # fstate => fstate' = 2))]_vars

\* one confirmation held a 'w' whose write failed on a modified Document and
\* then an 's' that wrote it to the bound filename
C13_Witness ==
    /\ key = "Enter" /\ Len(cmdlog) = 2
    /\ cmdlog[1].ch = "w" /\ cmdlog[1].msg1[1] = "Failed to open for writing!"
    /\ cmdlog[1].fstate0 = 2
    /\ cmdlog[2].ch = "s" /\ SaveOK(cmdlog[2])
    /\ fstate = 1 /\ saved = lines /\ lines # << <<>> >>

\* C14 (as claimed): at update time, in a terminal of at least 40 columns,
\* the padding count of the status line is not negative and the status line
\* is exactly as long as the terminal is wide.
C14_StatusLineWidth ==
    (pc = "update" /\ mx >= MinCols /\ fatal \notin {"size", "alloc", "stack"}) =>
        /\ StatusPad(mx, fname, fstate, cx, cy) >= 0
        /\ Len(sbar(mx, fname, fstate, cx, cy)) = mx

\* C15 (as claimed): whenever the terminal size taken at startup or on a
\* tick has fewer than 40 columns or fewer than 14 rows, rows 0 and 1
\* included, the editor has stopped there with the terminal-too-small error.
C15_TooSmallIsFatal ==
    (mx < MinCols \/ my < MinBodyRows + 2) => (fatal = "size" /\ pc = "update")

C17_CommandModeFrame ==
    [][(edmode = 1 /\ pc = "events" /\ ~KeyEnter(<<>>, <<>>)) =>
        /\ UNCHANGED <<lines, cx, cy, ox, oy, fstate, is_running>>
        /\ \A ch \in CmdChars :
              KeyChar(ch) => /\ cmd' = Append(cmd, ch)
                             /\ cmdlog' = <<>> /\ mvlog' = <<>>
                             /\ UNCHANGED <<last_cmd, smessage, edmode, fname>>]_vars

\* a second 'd' has been typed in Command mode, on a row that 'd' would delete
C17_Witness ==
    /\ edmode = 1 /\ key = "d" /\ cmd = <<"d", "d">>
    /\ cy > 0 /\ cx > 0 /\ Len(lines) > 1 /\ fstate # 2

\* C18 (as claimed): Enter in Command mode always terminates: the nesting of
\* processCmd calls stays bounded and the editor is in Edit mode afterwards.
C18_EnterTerminates ==
    [][(KeyEnter(<<>>, <<>>) /\ edmode = 1) => (fatal' # "stack" /\ edmode' = 0)]_vars

C20_DirtyOnlyOnChange ==
    [][(pc = "events" /\ edmode = 0 /\ lines' = lines) => fstate' = fstate]_vars

\* C21: after every render pass the last-drawn frame equals the target frame
\* and the body rows on the terminal equal the target frame; a pass without
\* forced redraw writes a row exactly when the row differed between the
\* last-drawn frame and the target.
C21_RenderDrawsTarget ==
    [][Render =>
          /\ front' = back' /\ term' = back'
          /\ ~is_ws_changed => drawn' = {i \in 0..(Len(back) - 1) : front[i + 1] # back[i + 1]}]_vars

\* C21 happens: a pass without forced redraw has written some rows and left
\* others, on a frame scrolled on both axes that shows a percent sign and
\* the rows past the end of the file
C21_Witness ==
    /\ pc = "events" /\ ox > 0 /\ oy > 0
    /\ drawn # {} /\ drawn # 0..(ay - 1)
    /\ \E i \in 1..Len(term) : "%" \in Range(term[i].text)
    /\ term[Len(term)].text = <<"~">>

\* C22 (as claimed): at every render pass the position handed to the
\* terminal cursor, (cy - oy, visual column - ox), lies inside the body
\* area: 0 <= row < ay and 0 <= column < ax.
C22_CursorInBody ==
    cursor # <<>> =>
        /\ 0 <= cursor[1] /\ cursor[1] < ay
        /\ 0 <= cursor[2] /\ cursor[2] < ax

====
